---- MODULE Spec2Model ----
(***************************************************************************)
(* Model of the code-sharing editor panel:                                 *)
(*   src/src/assets/composables/useEditor.js   the state container         *)
(*   src/src/components/CodeEditor.vue         the editor panel            *)
(*                                                                         *)
(* Strings whose characters matter (language names, which are lowercased)  *)
(* are sequences of one-character strings; strings that are only stored or *)
(* compared whole (themes, code text, links) are TLA+ strings.             *)
(*                                                                         *)
(* Scheduling.  The browser runs one task at a time and drains the         *)
(* microtask queue before the next task.  UI events (clicks, keystrokes)   *)
(* are tasks, so they are taken only when no microtask of the panel is     *)
(* pending.  The continuation of the mount handler after `await            *)
(* nextTick()` and the re-run of a watchEffect are microtasks.  Mounting   *)
(* and unmounting are done by the host (synchronously, or by a later job   *)
(* of the same scheduler flush), so they may happen while a mount          *)
(* continuation is still pending.  The clipboard promise settles in a      *)
(* later task.                                                             *)
(***************************************************************************)
EXTENDS Naturals, Sequences, FiniteSets

\* ------------------------------------------------------------- bounds
MaxMounts == 1      \* panel instances set up over a run
MaxShares == 1      \* share invocations over a run
MaxLen == 3         \* length of a language string passed by the host

\* ------------------------------------------------------------- strings
UpperCase == <<"A","B","C","D","E","F","G","H","I","J","K","L","M",
               "N","O","P","Q","R","S","T","U","V","W","X","Y","Z">>
LowerCase == <<"a","b","c","d","e","f","g","h","i","j","k","l","m",
               "n","o","p","q","r","s","t","u","v","w","x","y","z">>

\* String.prototype.toLowerCase on one character
LowerChar(c) ==
  IF \E i \in DOMAIN UpperCase : UpperCase[i] = c
  THEN LowerCase[CHOOSE i \in DOMAIN UpperCase : UpperCase[i] = c]
  ELSE c

\* String.prototype.toLowerCase
ToLowerCase(s) == [i \in DOMAIN s |-> LowerChar(s[i])]

\* ------------------------------------------------------- props and inputs
\* defineProps: availableLanguages default
AvailableLanguages ==
  << <<"H","T","M","L">>, <<"C","S","S">>, <<"P","y","t","h","o","n">> >>

\* defineProps: availableThemes default
AvailableThemes == <<"Light", "Dark">>

\* the documented sample (useEditor.js lines 8-25), abbreviated
DefaultCode == "<html>\n  <head>\n ... </html>"

\* what a holder of a handle may pass to the setters
Alphabet == {"A", "a"}
StringsUpTo(n) == UNION {[1..k -> Alphabet] : k \in 0..n}
LanguageInputs == StringsUpTo(MaxLen)
ThemeInputs == {"Dark", "Light", "dark", ""}
CodeInputs == {"", "x", "x\ny"}
LinkInputs == {"", "u", "v"}
\* what the user may leave in the widget after an edit
EditTexts == {"", "x\ny"}

\* ------------------------------------------------------------- state container
NoHandle == [none |-> TRUE]

\* useEditor(): every call builds its own four refs
useEditor ==
  [currentLanguage |-> <<"h","t","m","l">>,
   currentTheme |-> "vs-dark",
   currentLink |-> "",
   defaultCode |-> DefaultCode]

\* setLanguage storing its argument as given
setLanguageVerbatim(st, language) == [st EXCEPT !.currentLanguage = language]

setLanguage(st, language) == [st EXCEPT !.currentLanguage = ToLowerCase(language)]

setTheme(st, theme) ==
  [st EXCEPT !.currentTheme = IF theme = "Dark" THEN "vs-dark" ELSE "vs"]

setLink(st, link) == [st EXCEPT !.currentLink = link]

setCode(st, newCode) == [st EXCEPT !.defaultCode = newCode]

\* ------------------------------------------------------------- variables
VARIABLES
  hostStore,        \* the handle the host page got from useEditor(), or NoHandle
  cur,              \* number of panel instances set up so far; cur is the latest
  pc,               \* per instance: "unborn", "awaitTick" (onMounted suspended), "done"
  mounted,          \* per instance: between mount and unmount
  editorContainer,  \* per instance: the template ref, "el" or "null"
  editor,           \* per instance: `let editor`: "null", "live" or "disposed"
  docListeners,     \* instances whose closeDropdowns is a click listener of document
  editorStore,      \* the latest instance's handle from useEditor()
  showLanguages,    \* the latest instance's dropdown flags
  showThemes,
  widget,           \* the latest instance's widget model: NoWidget or [value, language]
  monacoTheme,      \* monaco's (global) theme
  themeEffect,      \* the latest instance's watchEffects: "none", "idle", "queued"
  languageEffect,
  shares,           \* the shareCode invocations, in order
  consoleErrors,    \* instances that logged 'Failed to initialize Monaco Editor'
  unhandled         \* instances whose mount handler rejected

vars == <<hostStore, cur, pc, mounted, editorContainer, editor, docListeners,
          editorStore, showLanguages, showThemes, widget, monacoTheme,
          themeEffect, languageEffect, shares, consoleErrors, unhandled>>

lifeVars == <<cur, pc, mounted, editorContainer, editor, docListeners,
              consoleErrors, unhandled>>
menuVars == <<showLanguages, showThemes>>
widgetVars == <<widget, monacoTheme>>
effectVars == <<themeEffect, languageEffect>>

Instances == 1..MaxMounts
NoWidget == [none |-> TRUE]
Success == "Code copied to clipboard!"
Failure == "Failed to copy code. Please copy it manually."

Init ==
  /\ hostStore = NoHandle
  /\ cur = 0
  /\ pc = [i \in Instances |-> "unborn"]
  /\ mounted = [i \in Instances |-> FALSE]
  /\ editorContainer = [i \in Instances |-> "null"]
  /\ editor = [i \in Instances |-> "null"]
  /\ docListeners = {}
  /\ editorStore = NoHandle
  /\ showLanguages = FALSE
  /\ showThemes = FALSE
  /\ widget = NoWidget
  /\ monacoTheme = "vs"
  /\ themeEffect = "none"
  /\ languageEffect = "none"
  /\ shares = <<>>
  /\ consoleErrors = {}
  /\ unhandled = {}

\* ------------------------------------------------------------- scheduling
MountPending == \E i \in Instances : pc[i] = "awaitTick"
EffectsQueued == themeEffect = "queued" \/ languageEffect = "queued"
\* a task may start: the microtask queue is empty
TaskReady == ~MountPending /\ ~EffectsQueued
\* the latest instance is rendered and can receive UI events
UserReady == TaskReady /\ cur >= 1 /\ mounted[cur]

\* ------------------------------------------------------------- the host page
HostUseEditor ==
  /\ hostStore = NoHandle
  /\ hostStore' = useEditor
  /\ UNCHANGED <<lifeVars, editorStore, menuVars, widgetVars, effectVars, shares>>

HostSetLanguage(language) ==
  /\ hostStore # NoHandle
  /\ hostStore' = setLanguage(hostStore, language)
  /\ UNCHANGED <<lifeVars, editorStore, menuVars, widgetVars, effectVars, shares>>

HostSetTheme(theme) ==
  /\ hostStore # NoHandle
  /\ hostStore' = setTheme(hostStore, theme)
  /\ UNCHANGED <<lifeVars, editorStore, menuVars, widgetVars, effectVars, shares>>

HostSetLink(link) ==
  /\ hostStore # NoHandle
  /\ hostStore' = setLink(hostStore, link)
  /\ UNCHANGED <<lifeVars, editorStore, menuVars, widgetVars, effectVars, shares>>

HostSetCode(newCode) ==
  /\ hostStore # NoHandle
  /\ hostStore' = setCode(hostStore, newCode)
  /\ UNCHANGED <<lifeVars, editorStore, menuVars, widgetVars, effectVars, shares>>

\* ------------------------------------------------------------- panel lifecycle
\* <script setup> runs, the template is rendered, the ref is bound and the
\* onMounted handler runs up to `await nextTick()`
Mount ==
  /\ ~EffectsQueued
  /\ cur < MaxMounts
  /\ \A i \in Instances : ~mounted[i]
  /\ cur' = cur + 1
  /\ editorStore' = useEditor
  /\ showLanguages' = FALSE
  /\ showThemes' = FALSE
  /\ widget' = NoWidget
  /\ themeEffect' = "none"
  /\ languageEffect' = "none"
  /\ mounted' = [mounted EXCEPT ![cur + 1] = TRUE]
  /\ editorContainer' = [editorContainer EXCEPT ![cur + 1] = "el"]
  /\ pc' = [pc EXCEPT ![cur + 1] = "awaitTick"]
  /\ UNCHANGED <<hostStore, editor, docListeners, monacoTheme, shares,
                 consoleErrors, unhandled>>

\* document.addEventListener('click', closeDropdowns)
addClickListener(ls, i) == ls \cup {i}

\* document.removeEventListener('click', closeDropdowns)
removeClickListener(ls, i) == ls \ {i}

\* the onMounted handler without its try/catch: a throw of monaco.editor.create
\* rejects the handler's promise before the click listener is added
MountContinueNoCatch(i, created) ==
  /\ pc[i] = "awaitTick"
  /\ IF editorContainer[i] = "el"
     THEN IF created = "ok"
          THEN /\ editor' = [editor EXCEPT ![i] = "live"]
               /\ widget' = [value |-> editorStore.defaultCode,
                             language |-> editorStore.currentLanguage]
               /\ monacoTheme' = editorStore.currentTheme
               /\ themeEffect' = "idle"
               /\ languageEffect' = "idle"
               /\ docListeners' = addClickListener(docListeners, i)
               /\ UNCHANGED <<consoleErrors, unhandled>>
          ELSE /\ created = "throw"
               /\ consoleErrors' = consoleErrors \cup {i}
               /\ unhandled' = unhandled \cup {i}
               /\ UNCHANGED <<editor, widgetVars, effectVars, docListeners>>
     ELSE /\ created = "none"
          /\ docListeners' = addClickListener(docListeners, i)
          /\ UNCHANGED <<editor, widgetVars, effectVars, consoleErrors, unhandled>>
  /\ pc' = [pc EXCEPT ![i] = "done"]
  /\ UNCHANGED <<hostStore, cur, mounted, editorContainer, editorStore,
                 menuVars, shares>>

\* the onMounted handler after `await nextTick()`; created says whether
\* monaco.editor.create returned ("ok"), threw ("throw") or was not called
\* because the template ref is null ("none")
MountContinue(i, created) ==
  /\ pc[i] = "awaitTick"
  /\ IF editorContainer[i] = "el"
     THEN IF created = "ok"
          THEN /\ editor' = [editor EXCEPT ![i] = "live"]
               /\ widget' = [value |-> editorStore.defaultCode,
                             language |-> editorStore.currentLanguage]
               /\ monacoTheme' = editorStore.currentTheme
               /\ themeEffect' = "idle"
               /\ languageEffect' = "idle"
               /\ UNCHANGED consoleErrors
          ELSE /\ created = "throw"
               /\ consoleErrors' = consoleErrors \cup {i}
               /\ UNCHANGED <<editor, widgetVars, effectVars>>
     ELSE /\ created = "none"
          /\ UNCHANGED <<editor, widgetVars, effectVars, consoleErrors>>
  /\ docListeners' = addClickListener(docListeners, i)
  /\ pc' = [pc EXCEPT ![i] = "done"]
  /\ UNCHANGED <<hostStore, cur, mounted, editorContainer, editorStore,
                 menuVars, shares, unhandled>>

\* onBeforeUnmount, then the template ref is reset
Unmount(i) ==
  /\ ~EffectsQueued
  /\ mounted[i]
  /\ editor' = [editor EXCEPT ![i] = IF @ # "null" THEN "disposed" ELSE @]
  /\ widget' = IF editor[i] # "null" THEN NoWidget ELSE widget
  /\ docListeners' = removeClickListener(docListeners, i)
  /\ mounted' = [mounted EXCEPT ![i] = FALSE]
  /\ editorContainer' = [editorContainer EXCEPT ![i] = "null"]
  /\ UNCHANGED <<hostStore, cur, pc, editorStore, menuVars, monacoTheme,
                 effectVars, shares, consoleErrors, unhandled>>

\* ------------------------------------------------------------- reactivity
\* a ref assignment queues the effects that read the ref, if the value changed
Trigger(effect, old, new) ==
  IF effect # "none" /\ old # new THEN "queued" ELSE effect

\* a flush that runs the theme effect and drops the language effect's job
FlushEffectsThemeOnly ==
  /\ EffectsQueued
  /\ monacoTheme' = IF themeEffect = "queued" /\ editor[cur] # "null"
                    THEN editorStore.currentTheme ELSE monacoTheme
  /\ widget' = widget
  /\ themeEffect' = IF themeEffect = "queued" THEN "idle" ELSE themeEffect
  /\ languageEffect' = IF languageEffect = "queued" THEN "idle" ELSE languageEffect
  /\ UNCHANGED <<hostStore, lifeVars, editorStore, menuVars, shares>>

\* the scheduler re-runs the queued watchEffects of the latest instance
FlushEffects ==
  /\ EffectsQueued
  /\ monacoTheme' = IF themeEffect = "queued" /\ editor[cur] # "null"
                    THEN editorStore.currentTheme ELSE monacoTheme
  /\ widget' = IF languageEffect = "queued" /\ editor[cur] # "null" /\ widget # NoWidget
               THEN [widget EXCEPT !.language = editorStore.currentLanguage]
               ELSE widget
  /\ themeEffect' = IF themeEffect = "queued" THEN "idle" ELSE themeEffect
  /\ languageEffect' = IF languageEffect = "queued" THEN "idle" ELSE languageEffect
  /\ UNCHANGED <<hostStore, lifeVars, editorStore, menuVars, shares>>

\* ------------------------------------------------------------- dropdowns
\* closeDropdowns forgetting the theme menu
closeDropdownsLanguagesOnly == [showLanguages |-> FALSE, showThemes |-> showThemes]

\* closeDropdowns: the flags it leaves
closeDropdowns == [showLanguages |-> FALSE, showThemes |-> FALSE]

\* the inline handlers `showLanguages = !showLanguages`, `showThemes = !showThemes`
toggle(flag) == ~flag

\* click on the language button: its handler, then stopPropagation on the wrapper
ToggleLanguages ==
  /\ UserReady
  /\ showLanguages' = toggle(showLanguages)
  /\ UNCHANGED <<hostStore, lifeVars, editorStore, showThemes, widgetVars,
                 effectVars, shares>>

\* click on the theme button
ToggleThemes ==
  /\ UserReady
  /\ showThemes' = toggle(showThemes)
  /\ UNCHANGED <<hostStore, lifeVars, editorStore, showLanguages, widgetVars,
                 effectVars, shares>>

\* changeLanguage closing both menus
changeLanguageClosesAll(st, flags, language) ==
  [store |-> setLanguage(st, language),
   flags |-> [showLanguages |-> FALSE, showThemes |-> FALSE]]

\* changeLanguage(language): the store and flags it leaves
changeLanguage(st, flags, language) ==
  [store |-> setLanguage(st, language),
   flags |-> [flags EXCEPT !.showLanguages = FALSE]]

\* changeTheme(theme)
changeTheme(st, flags, theme) ==
  [store |-> setTheme(st, theme),
   flags |-> [flags EXCEPT !.showThemes = FALSE]]

Flags == [showLanguages |-> showLanguages, showThemes |-> showThemes]

\* click on option k of the language menu (rendered only while the menu is open):
\* changeLanguage(language.toLowerCase()), then stopPropagation on the wrapper
ClickLanguageOption(k) ==
  /\ UserReady
  /\ showLanguages
  /\ LET r == changeLanguage(editorStore, Flags, ToLowerCase(AvailableLanguages[k]))
     IN /\ editorStore' = r.store
        /\ showLanguages' = r.flags.showLanguages
        /\ showThemes' = r.flags.showThemes
        /\ languageEffect' = Trigger(languageEffect, editorStore.currentLanguage,
                                     r.store.currentLanguage)
        /\ themeEffect' = Trigger(themeEffect, editorStore.currentTheme,
                                  r.store.currentTheme)
  /\ UNCHANGED <<hostStore, lifeVars, widgetVars, shares>>

\* click on option k of the theme menu: changeTheme(theme)
ClickThemeOption(k) ==
  /\ UserReady
  /\ showThemes
  /\ LET r == changeTheme(editorStore, Flags, AvailableThemes[k])
     IN /\ editorStore' = r.store
        /\ showLanguages' = r.flags.showLanguages
        /\ showThemes' = r.flags.showThemes
        /\ languageEffect' = Trigger(languageEffect, editorStore.currentLanguage,
                                     r.store.currentLanguage)
        /\ themeEffect' = Trigger(themeEffect, editorStore.currentTheme,
                                  r.store.currentTheme)
  /\ UNCHANGED <<hostStore, lifeVars, widgetVars, shares>>

\* a click that bubbles to document runs the registered closeDropdowns
FlagsAfterDocumentClick ==
  IF cur \in docListeners THEN closeDropdowns ELSE Flags

\* click outside both menu wrappers, on an element without a handler
ClickOutside ==
  /\ UserReady
  /\ showLanguages' = FlagsAfterDocumentClick.showLanguages
  /\ showThemes' = FlagsAfterDocumentClick.showThemes
  /\ UNCHANGED <<hostStore, lifeVars, editorStore, widgetVars, effectVars, shares>>

\* ------------------------------------------------------------- editing
\* the user edits the widget's text; onDidChangeModelContent runs
\* editorStore.setCode(editor.getValue())
Edit(text) ==
  /\ UserReady
  /\ editor[cur] = "live"
  /\ text # widget.value
  /\ widget' = [widget EXCEPT !.value = text]
  /\ editorStore' = setCode(editorStore, text)
  /\ UNCHANGED <<hostStore, lifeVars, menuVars, monacoTheme, effectVars, shares>>

\* ------------------------------------------------------------- share
\* one shareCode invocation that got past `if (editor)`
NewShare(code) ==
  [pc |-> "awaitClipboard", code |-> code, clipboard |-> "pending",
   exec |-> "none", alerts |-> <<>>, textArea |-> "none"]

\* shareCode after navigator.clipboard.writeText resolved
CopySucceeded(s) ==
  [s EXCEPT !.clipboard = "resolved", !.alerts = Append(@, Success),
            !.pc = "done", !.code = ""]

\* the catch block with removeChild inside the inner try, after execCommand
FallbackCopyLeak(s, how, exec) ==
  LET s1 == [s EXCEPT !.clipboard = how, !.textArea = "attached", !.exec = exec]
  IN IF exec = "throw"
     THEN [s1 EXCEPT !.alerts = Append(@, Failure), !.pc = "done", !.code = ""]
     ELSE [s1 EXCEPT !.alerts = Append(@, Success), !.textArea = "removed",
                     !.pc = "done", !.code = ""]

\* the catch block of shareCode; how says why it is entered ("rejected": the
\* promise rejected, "absent": navigator.clipboard is undefined) and exec what
\* document.execCommand('copy') does: returns "true" or "false", or "throw"s
FallbackCopy(s, how, exec) ==
  LET s1 == [s EXCEPT !.clipboard = how, !.textArea = "attached", !.exec = exec]
      s2 == IF exec = "throw"
            THEN [s1 EXCEPT !.alerts = Append(@, Failure)]
            ELSE [s1 EXCEPT !.alerts = Append(@, Success)]
  IN [s2 EXCEPT !.textArea = "removed", !.pc = "done", !.code = ""]

ExecOutcomes == {"true", "false", "throw"}

\* click on the share button while navigator.clipboard.writeText returns a
\* promise: shareCode runs up to its await, then the click bubbles to document
ShareClick ==
  /\ UserReady
  /\ IF editor[cur] # "null"
     THEN /\ Len(shares) < MaxShares
          /\ shares' = Append(shares, NewShare(widget.value))
     ELSE shares' = shares
  /\ showLanguages' = FlagsAfterDocumentClick.showLanguages
  /\ showThemes' = FlagsAfterDocumentClick.showThemes
  /\ UNCHANGED <<hostStore, lifeVars, editorStore, widgetVars, effectVars>>

\* click on the share button where navigator.clipboard is undefined: the call
\* throws inside the try block and the catch block runs in the same task
ShareClickNoClipboard(exec) ==
  /\ UserReady
  /\ editor[cur] # "null"
  /\ Len(shares) < MaxShares
  /\ shares' = Append(shares, FallbackCopy(NewShare(widget.value), "absent", exec))
  /\ showLanguages' = FlagsAfterDocumentClick.showLanguages
  /\ showThemes' = FlagsAfterDocumentClick.showThemes
  /\ UNCHANGED <<hostStore, lifeVars, editorStore, widgetVars, effectVars>>

\* the clipboard promise resolves
ClipboardResolve(k) ==
  /\ TaskReady
  /\ k \in DOMAIN shares
  /\ shares[k].pc = "awaitClipboard"
  /\ shares' = [shares EXCEPT ![k] = CopySucceeded(@)]
  /\ UNCHANGED <<hostStore, lifeVars, editorStore, menuVars, widgetVars, effectVars>>

\* the clipboard promise rejects
ClipboardReject(k, exec) ==
  /\ TaskReady
  /\ k \in DOMAIN shares
  /\ shares[k].pc = "awaitClipboard"
  /\ shares' = [shares EXCEPT ![k] = FallbackCopy(@, "rejected", exec)]
  /\ UNCHANGED <<hostStore, lifeVars, editorStore, menuVars, widgetVars, effectVars>>

\* ------------------------------------------------------------- specification
\* the host page and its handle
StoreNext ==
  \/ HostUseEditor
  \/ \E language \in LanguageInputs : HostSetLanguage(language)
  \/ \E theme \in ThemeInputs : HostSetTheme(theme)
  \/ \E link \in LinkInputs : HostSetLink(link)
  \/ \E newCode \in CodeInputs : HostSetCode(newCode)

\* the editor panel
PanelNext ==
  \/ Mount
  \/ \E i \in Instances, created \in {"ok", "throw", "none"} : MountContinue(i, created)
  \/ \E i \in Instances : Unmount(i)
  \/ FlushEffects
  \/ ToggleLanguages
  \/ ToggleThemes
  \/ \E k \in DOMAIN AvailableLanguages : ClickLanguageOption(k)
  \/ \E k \in DOMAIN AvailableThemes : ClickThemeOption(k)
  \/ ClickOutside
  \/ \E text \in EditTexts : Edit(text)
  \/ ShareClick
  \/ \E exec \in ExecOutcomes : ShareClickNoClipboard(exec)
  \/ \E k \in 1..MaxShares : ClipboardResolve(k)
  \/ \E k \in 1..MaxShares, exec \in ExecOutcomes : ClipboardReject(k, exec)

Next == StoreNext \/ PanelNext

\* a page that hosts the panel and holds a handle of its own
Spec == Init /\ [][Next]_vars

\* the state container alone
StoreSpec == Init /\ [][StoreNext]_vars

\* the panel alone
PanelSpec == Init /\ [][PanelNext]_vars

\* the panel, with the scheduler running every queued job and every promise
\* continuation
PanelFairSpec ==
  /\ PanelSpec
  /\ WF_vars(FlushEffects)
  /\ WF_vars(\E i \in Instances, created \in {"ok", "throw", "none"} : MountContinue(i, created))

\* ------------------------------------------------------------- properties
Range(f) == {f[x] : x \in DOMAIN f}

\* r is s with every upper-case letter replaced by its lower-case letter
IsLowerCaseOf(r, s) ==
  /\ DOMAIN r = DOMAIN s
  /\ \A i \in DOMAIN s :
       /\ \A j \in DOMAIN UpperCase : s[i] = UpperCase[j] => r[i] = LowerCase[j]
       /\ (\A j \in DOMAIN UpperCase : s[i] # UpperCase[j]) => r[i] = s[i]

\* the theme identifier setTheme is documented to store for a theme name
ThemeIdOf(theme) == CHOOSE id \in {"vs", "vs-dark"} : (id = "vs-dark") <=> (theme = "Dark")

\* the latest instance is mounted and shows a widget
Live == cur >= 1 /\ mounted[cur] /\ editor[cur] = "live"

\* the widget shows the theme and the language of the panel's state
Converged ==
  /\ monacoTheme = editorStore.currentTheme
  /\ widget.language = editorStore.currentLanguage

\* C1: once a panel instance is unmounted and its mount handler has run to its
\* end, it has no undisposed widget and no click listener left on the document.
C1_ReleasedOnUnmount ==
  \A i \in Instances :
    (pc[i] = "done" /\ ~mounted[i]) => (editor[i] # "live" /\ i \notin docListeners)

\* C2: while the panel shows a widget and no work is pending, the widget's text
\* is the code every holder of the state container reads (the panel and the
\* host page), whoever changed it last.
C2_ContentConverged ==
  (Live /\ TaskReady) =>
    /\ widget.value = editorStore.defaultCode
    /\ hostStore # NoHandle => widget.value = hostStore.defaultCode

C4_SharedState ==
  (hostStore # NoHandle /\ editorStore # NoHandle) => hostStore = editorStore

\* C5: a finished share has notified success only if the clipboard write
\* resolved or the legacy copy command succeeded, and has notified failure
\* whenever both failed (the command threw or returned false).
C5_NotificationMatchesOutcome ==
  \A k \in DOMAIN shares :
    shares[k].pc = "done" =>
      /\ Success \in Range(shares[k].alerts) =>
           (shares[k].clipboard = "resolved" \/ shares[k].exec = "true")
      /\ (shares[k].clipboard # "resolved" /\ shares[k].exec \in {"false", "throw"}) =>
           Failure \in Range(shares[k].alerts)

\* C6: a finished share has produced exactly one notification and has left no
\* temporary field in the document, a share still waiting for the clipboard has
\* produced none, and a share whose clipboard write resolved never created a
\* field.
C6_OneNotificationNoField ==
  \A k \in DOMAIN shares :
    /\ shares[k].pc = "done" =>
         (Len(shares[k].alerts) = 1 /\ shares[k].textArea # "attached")
    /\ shares[k].pc # "done" => (shares[k].alerts = <<>> /\ shares[k].textArea = "none")
    /\ shares[k].clipboard = "resolved" => shares[k].textArea = "none"

C6_Witness ==
  \E k \in DOMAIN shares :
    /\ shares[k].pc = "done"
    /\ shares[k].clipboard = "rejected"
    /\ shares[k].exec = "throw"
    /\ shares[k].alerts = <<Failure>>
    /\ shares[k].textArea = "removed"

\* C7: both menus start closed; a click on a menu's button flips its flag and
\* leaves the other; a click on an option closes its menu; a click outside both
\* menus (on the share button or elsewhere) closes both; no other step changes
\* a flag.
C7_DropdownMachine ==
  [][ /\ Mount => (~showLanguages' /\ ~showThemes')
      /\ ToggleLanguages => (showLanguages' = ~showLanguages /\ showThemes' = showThemes)
      /\ ToggleThemes => (showThemes' = ~showThemes /\ showLanguages' = showLanguages)
      /\ (\E k \in DOMAIN AvailableLanguages : ClickLanguageOption(k)) => ~showLanguages'
      /\ (\E k \in DOMAIN AvailableThemes : ClickThemeOption(k)) => ~showThemes'
      /\ (\/ ClickOutside \/ ShareClick
          \/ \E exec \in ExecOutcomes : ShareClickNoClipboard(exec)) =>
           (~showLanguages' /\ ~showThemes')
      /\ (showLanguages' # showLanguages \/ showThemes' # showThemes) =>
           \/ Mount \/ ToggleLanguages \/ ToggleThemes
           \/ ClickOutside \/ ShareClick
           \/ \E exec \in ExecOutcomes : ShareClickNoClipboard(exec)
           \/ \E k \in DOMAIN AvailableLanguages : ClickLanguageOption(k)
           \/ \E k \in DOMAIN AvailableThemes : ClickThemeOption(k)
    ]_vars

C7_Witness ==
  /\ cur >= 1 /\ mounted[cur] /\ cur \in docListeners
  /\ showLanguages /\ showThemes

\* C8: choosing a language option stores its lower-cased name and closes the
\* language menu, leaving the theme menu's flag, the stored theme and the code;
\* choosing a theme option stores its theme identifier and closes the theme
\* menu, leaving the language menu's flag, the stored language and the code.
C8_OptionFrame ==
  [][ /\ \A k \in DOMAIN AvailableLanguages :
           ClickLanguageOption(k) =>
             /\ IsLowerCaseOf(editorStore'.currentLanguage, AvailableLanguages[k])
             /\ ~showLanguages'
             /\ showThemes' = showThemes
             /\ editorStore'.currentTheme = editorStore.currentTheme
             /\ editorStore'.defaultCode = editorStore.defaultCode
      /\ \A k \in DOMAIN AvailableThemes :
           ClickThemeOption(k) =>
             /\ editorStore'.currentTheme = ThemeIdOf(AvailableThemes[k])
             /\ ~showThemes'
             /\ showLanguages' = showLanguages
             /\ editorStore'.currentLanguage = editorStore.currentLanguage
             /\ editorStore'.defaultCode = editorStore.defaultCode
    ]_vars

C8_Witness ==
  /\ cur >= 1 /\ mounted[cur]
  /\ editorStore.currentLanguage = <<"p","y","t","h","o","n">>
  /\ ~showLanguages
  /\ showThemes

\* C9: setLanguage(L) leaves the lower-cased L, setTheme(T) leaves "vs-dark"
\* for "Dark" and "vs" for anything else, setCode(T) leaves T, and the stored
\* theme is always "vs" or "vs-dark".
C9_SetterResults ==
  [][ /\ \A language \in LanguageInputs :
           HostSetLanguage(language) =>
             IsLowerCaseOf(hostStore'.currentLanguage, language)
      /\ \A theme \in ThemeInputs :
           HostSetTheme(theme) => hostStore'.currentTheme = ThemeIdOf(theme)
      /\ \A newCode \in CodeInputs :
           HostSetCode(newCode) => hostStore'.defaultCode = newCode
      /\ hostStore' # NoHandle => hostStore'.currentTheme \in {"vs", "vs-dark"}
    ]_vars

C9_Witness ==
  /\ hostStore # NoHandle
  /\ hostStore.currentLanguage = <<"a", "a">>
  /\ hostStore.currentTheme = "vs"
  /\ hostStore.defaultCode = "x\ny"

\* C10: when constructing the widget threw, the mount handler did not reject,
\* the instance never has a widget, its click listener is registered once the
\* handler is through (while it stays mounted), and a share click on it starts
\* no share.
C10_ConstructionFailureContained ==
  [][ /\ unhandled' = {}
      /\ \A i \in consoleErrors' :
           /\ editor'[i] = "null"
           /\ (pc'[i] = "done" /\ mounted'[i]) => i \in docListeners'
      /\ (cur >= 1 /\ cur \in consoleErrors /\ mounted[cur] /\ cur' = cur) =>
           Len(shares') = Len(shares)
    ]_vars

C10_Witness ==
  /\ cur >= 1 /\ cur \in consoleErrors /\ mounted[cur]
  /\ editor[cur] = "null"
  /\ cur \in docListeners
  /\ showLanguages

====
